---- MODULE Spec2Model ----
(***************************************************************************)
(* Publication management and page hierarchy of the CMS.                   *)
(*                                                                         *)
(*   cms/core/models/managers.py   PublicationManager (thread-local stack  *)
(*                                 of booleans), PublishedModelManager     *)
(*   cms/models/base.py            PublishedBase.select_published,         *)
(*                                 EntityBase hierarchy properties         *)
(*   cms/apps/pages/models         Page                                    *)
(***************************************************************************)
EXTENDS Integers, Sequences, FiniteSets, TLC

\* Threads that use the single module-level publication_manager object.
Threads == {"t1", "t2"}

\* Deepest publication stack a thread builds.
MaxDepth == 3

NoError == "none"

\* An error raised by the block enclosed in "with select_published(v):".
BodyError == "BodyError"

PublicationManagementError == "PublicationManagementError"

None == "None"

\* Page identities (Page.id), in the order the store hands them out.
PageIds == {"p1", "p2", "p3", "p4"}

\* A blank publication_date or expiry_date (null=True).
NoDate == -1

\* Latest publication or expiry date given to a page.
MaxDate == 1

\* Latest reading of the clock, datetime.datetime.now().
MaxNow == 2

\* The thread that serves the request which queries pages.
RequestThread == "t1"

VARIABLES
    stack,      \* PublicationManager._stack, one list per thread-local slot
    frames,     \* per thread: the open "with select_published(v)" blocks, innermost last
    exc,        \* per thread: the exception propagating in the thread, or NoError
    open,       \* history: per thread, the values it pushed and has not yet popped
    last,       \* history: the call made by the latest step
    pages,      \* the Page table: a row per identity
    now,        \* the clock
    held,       \* the Page object a caller holds, with its memoized children
    pres        \* history: the latest page query and what it returned

pmvars == <<stack, frames, exc, open, last>>

pagevars == <<pages, now, held, pres>>

VARIABLES
    url_title,  \* the url_title column of the Page table
    used,       \* identities the store has handed out so far
    cache,      \* the hierarchy cache: identity -> Page object
    self,       \* the Page object on which save and delete are called
    shadow,     \* history: per identity, the object last added and not removed since
    sres        \* history: the latest save or delete and the state it started from

storevars == <<url_title, used, cache, self, shadow, sres>>

----------------------------------------------------------------------------
(* PublicationManager                                                      *)

\* A PublicationManager that is an ordinary object: every thread sees one list.
SharedSlot(t) == CHOOSE u \in Threads : TRUE

\* class PublicationManager(threading.local): attribute _stack of the one
\* publication_manager object resolves to the calling thread's own list.
LocalSlot(t) == t

\* self._stack as seen by thread t.
Stack(t) == stack[LocalSlot(t)]

\* self._stack.append(select_published)
_begin(stk, v) == Append(stk, v)

\* select_published_active that reads the oldest entry.
ActiveReadsBottom(stk) == IF Len(stk) = 0 THEN TRUE ELSE stk[1]

\* try: return self._stack[-1]  except IndexError: return True
select_published_active(stk) == IF Len(stk) = 0 THEN TRUE ELSE stk[Len(stk)]

\* _end that swallows the IndexError of an empty list.
EndSilent(stk) ==
    IF Len(stk) = 0
    THEN [stack |-> stk, raised |-> NoError]
    ELSE [stack |-> SubSeq(stk, 1, Len(stk) - 1), raised |-> NoError]

\* _end that removes the oldest entry, list.pop(0).
EndPopsBottom(stk) ==
    IF Len(stk) = 0
    THEN [stack |-> stk, raised |-> PublicationManagementError]
    ELSE [stack |-> SubSeq(stk, 2, Len(stk)), raised |-> NoError]

\* try: self._stack.pop()  except IndexError: raise PublicationManagementError
\* The list after the call and the error the call raises.
_end(stk) ==
    IF Len(stk) = 0
    THEN [stack |-> stk, raised |-> PublicationManagementError]
    ELSE [stack |-> SubSeq(stk, 1, Len(stk) - 1), raised |-> NoError]

\* A generator without the finally clause: an error in the block skips _end.
ExitSkipsEndOnError(stk, inflight) ==
    IF inflight # NoError
    THEN [stack |-> stk, raised |-> inflight]
    ELSE LET r == _end(stk) IN [stack |-> r.stack, raised |-> r.raised]

\* select_published after the yield: "except: raise" re-raises the error of the
\* block, "finally: self._end()" pops in both cases; an error raised by _end
\* replaces the one that was propagating.
select_published_exit(stk, inflight) ==
    LET r == _end(stk)
    IN  [stack |-> r.stack,
         raised |-> IF r.raised # NoError THEN r.raised ELSE inflight]

\* The record of one call: the calling thread, the operation, the value passed
\* or returned, the thread's stack before the call, the error that was
\* propagating, and for a scope exit the stack at the scope's entry and whether
\* another scope was opened inside it.
Call(t, op, val, pre, raised, entry, nested) ==
    [t |-> t, op |-> op, val |-> val, pre |-> pre, raised |-> raised,
     entry |-> entry, nested |-> nested]

NoCall == Call("t1", "init", TRUE, <<>>, NoError, <<>>, FALSE)

\* A scope was opened inside the innermost open one.
MarkNested(fs) ==
    IF Len(fs) = 0 THEN fs ELSE [fs EXCEPT ![Len(fs)].nested = TRUE]

PMInit ==
    /\ stack = [t \in Threads |-> <<>>]
    /\ frames = [t \in Threads |-> <<>>]
    /\ exc = [t \in Threads |-> NoError]
    /\ open = [t \in Threads |-> <<>>]
    /\ last = NoCall

\* publication_manager._begin(v) called directly by thread t.  _begin and _end
\* are the two halves of select_published; code calls them directly only
\* outside "with" blocks.
CallBegin(t, v) ==
    /\ exc[t] = NoError
    /\ frames[t] = <<>>
    /\ Len(Stack(t)) < MaxDepth
    /\ stack' = [stack EXCEPT ![LocalSlot(t)] = _begin(@, v)]
    /\ open' = [open EXCEPT ![t] = Append(@, v)]
    /\ last' = Call(t, "_begin", v, Stack(t), NoError, <<>>, FALSE)
    /\ UNCHANGED <<frames, exc>>

\* publication_manager._end() called directly by thread t.
CallEnd(t) ==
    /\ exc[t] = NoError
    /\ frames[t] = <<>>
    /\ LET r == _end(Stack(t))
       IN  /\ stack' = [stack EXCEPT ![LocalSlot(t)] = r.stack]
           /\ exc' = [exc EXCEPT ![t] = r.raised]
    /\ open' = [open EXCEPT ![t] =
                    IF Len(@) = 0 THEN @ ELSE SubSeq(@, 1, Len(@) - 1)]
    /\ last' = Call(t, "_end", TRUE, Stack(t), NoError, <<>>, FALSE)
    /\ UNCHANGED frames

\* publication_manager.select_published_active() called by thread t.
CallActive(t) ==
    /\ exc[t] = NoError
    /\ last' = Call(t, "select_published_active",
                    select_published_active(Stack(t)), Stack(t), NoError, <<>>, FALSE)
    /\ UNCHANGED <<stack, frames, exc, open>>

\* Thread t enters "with publication_manager.select_published(v):".
WithEnter(t, v) ==
    /\ exc[t] = NoError
    /\ Len(Stack(t)) < MaxDepth
    /\ stack' = [stack EXCEPT ![LocalSlot(t)] = _begin(@, v)]
    /\ frames' = [frames EXCEPT ![t] =
                    Append(MarkNested(@), [entry |-> Stack(t), nested |-> FALSE])]
    /\ open' = [open EXCEPT ![t] = Append(@, v)]
    /\ last' = Call(t, "enter", v, Stack(t), NoError, Stack(t), FALSE)
    /\ UNCHANGED exc

\* The block enclosed by thread t's innermost open scope raises an error.
BodyRaise(t) ==
    /\ exc[t] = NoError
    /\ frames[t] # <<>>
    /\ exc' = [exc EXCEPT ![t] = BodyError]
    /\ last' = Call(t, "raise", TRUE, Stack(t), NoError, <<>>, FALSE)
    /\ UNCHANGED <<stack, frames, open>>

\* Thread t leaves its innermost open scope, normally or with the error in exc[t].
WithExit(t) ==
    /\ frames[t] # <<>>
    /\ LET r == select_published_exit(Stack(t), exc[t])
           f == frames[t][Len(frames[t])]
       IN  /\ stack' = [stack EXCEPT ![LocalSlot(t)] = r.stack]
           /\ exc' = [exc EXCEPT ![t] = r.raised]
           /\ last' = Call(t, "exit", TRUE, Stack(t), exc[t], f.entry, f.nested)
    /\ frames' = [frames EXCEPT ![t] = SubSeq(@, 1, Len(@) - 1)]
    /\ open' = [open EXCEPT ![t] =
                    IF Len(@) = 0 THEN @ ELSE SubSeq(@, 1, Len(@) - 1)]

\* The caller of thread t's failed call catches the propagating error.
Handle(t) ==
    /\ exc[t] # NoError
    /\ exc' = [exc EXCEPT ![t] = NoError]
    /\ last' = Call(t, "handle", TRUE, Stack(t), exc[t], <<>>, FALSE)
    /\ UNCHANGED <<stack, frames, open>>

PMNext ==
    \E t \in Threads :
        \/ \E v \in BOOLEAN : CallBegin(t, v)
        \/ CallEnd(t)
        \/ CallActive(t)
        \/ \E v \in BOOLEAN : WithEnter(t, v)
        \/ BodyRaise(t)
        \/ WithExit(t)
        \/ Handle(t)

----------------------------------------------------------------------------
(* The Page table and its queries                                          *)

Dates == {NoDate} \cup (1..MaxDate)

\* A row of the Page table.
Row(ex, par, ord, onl, pub, exp) ==
    [exists |-> ex, parent |-> par, order |-> ord, is_online |-> onl,
     publication_date |-> pub, expiry_date |-> exp]

NoRow == Row(FALSE, None, 0, TRUE, NoDate, NoDate)

NoResult == [op |-> "init", page |-> None, list |-> <<>>, item |-> None]

\* A page operation that returns nothing to compare.
Did(op) == [op |-> op, page |-> None, list |-> <<>>, item |-> None]

\* No queryset memoized.
NoMemo == [set |-> FALSE, selpub |-> TRUE, now |-> 0, parent |-> None, cache |-> <<>>]

\* No Page object held.
NoPage == [id |-> None, memo |-> NoMemo, dirty |-> FALSE]

\* Position of an identity in the sequence the store hands identities out.
IdRank == [p \in PageIds |-> CASE p = "p1" -> 1 [] p = "p2" -> 2 [] p = "p3" -> 3 [] OTHER -> 4]

Existing == {p \in PageIds : pages[p].exists}

\* PublishedBase.select_published: queryset.filter(is_online=True)
PublishedBase_select_published(qs) == {p \in qs : pages[p].is_online}

\* expiry_date__gte in place of expiry_date__gt.
SelectPublishedExpiryInclusive(qs, n) ==
    LET q1 == PublishedBase_select_published(qs)
        q2 == {p \in q1 : pages[p].publication_date = NoDate
                            \/ pages[p].publication_date <= n}
    IN  {p \in q2 : pages[p].expiry_date = NoDate \/ pages[p].expiry_date >= n}

\* Page.select_published(queryset) with now = n: the base filter, then
\* Q(publication_date=None) | Q(publication_date__lte=now), then
\* Q(expiry_date=None) | Q(expiry_date__gt=now).
Page_select_published(qs, n) ==
    LET q1 == PublishedBase_select_published(qs)
        q2 == {p \in q1 : pages[p].publication_date = NoDate
                            \/ pages[p].publication_date <= n}
    IN  {p \in q2 : pages[p].expiry_date = NoDate \/ pages[p].expiry_date > n}

\* PublishedModelManager.get_query_set: the rows of the table, filtered by
\* Page.select_published when select_published_active() returned `active`.
get_query_set(active, n) ==
    IF active THEN Page_select_published(Existing, n) ELSE Existing

\* Page.Meta.ordering = ("order",): rows come back by ascending order key.
RECURSIVE OrderBy(_)
OrderBy(S) ==
    IF S = {} THEN <<>>
    ELSE LET m == CHOOSE x \in S : \A y \in S : pages[x].order <= pages[y].order
         IN  <<m>> \o OrderBy(S \ {m})

\* Page.objects.filter(parent=p) as built by thread t: a lazy queryset that
\* has fixed whether the publication filter applies and its value of now.
ChildrenQuerySet(t, p) ==
    [selpub |-> select_published_active(Stack(t)), now |-> now, parent |-> p]

\* Iterating a queryset reads the table as it is at that moment.
Evaluate(q) ==
    OrderBy({c \in get_query_set(q.selpub, q.now) : pages[c].parent = q.parent})

\* self.children of a Page object loaded for the occasion, read by thread t.
Children(t, p) == Evaluate(ChildrenQuerySet(t, p))

\* @cached_getter: the first call on an object stores the getter's value in
\* the object; later calls on that object return the stored value.
cached_getter(memo, fresh) ==
    IF memo.set THEN memo ELSE [fresh EXCEPT !.set = TRUE]

\* Page.get_children on the held object, read by thread t: the memoized
\* queryset, or a new one. Iterating a queryset fills its result cache once.
get_children(t, obj) ==
    LET q == ChildrenQuerySet(t, obj.id)
        fresh == [set |-> FALSE, selpub |-> q.selpub, now |-> q.now,
                  parent |-> q.parent, cache |-> Evaluate(q)]
    IN  cached_getter(obj.memo, fresh)

\* all_parents that appends the parent after its own ancestors.
RECURSIVE AllParentsRootFirst(_)
AllParentsRootFirst(p) ==
    IF pages[p].parent # None
    THEN AllParentsRootFirst(pages[p].parent) \o <<pages[p].parent>>
    ELSE <<>>

\* EntityBase.all_parents, Page.get_all_parents:
\* if self.parent: return [self.parent] + self.parent.all_parents; return []
RECURSIVE all_parents(_)
all_parents(p) ==
    IF pages[p].parent # None
    THEN <<pages[p].parent>> \o all_parents(pages[p].parent)
    ELSE <<>>

\* all_children that emits a child after that child's subtree.
RECURSIVE AllChildrenPostOrder(_), PostOrderEach(_)
AllChildrenPostOrder(p) == PostOrderEach(Children(RequestThread, p))

PostOrderEach(cs) ==
    IF cs = <<>> THEN <<>>
    ELSE AllChildrenPostOrder(Head(cs)) \o <<Head(cs)>> \o PostOrderEach(Tail(cs))

\* EntityBase.all_children, Page.get_all_children:
\*   children = []
\*   for child in self.children:
\*       children.append(child); children.extend(child.all_children)
\* ExtendEach is the loop over the remaining children.
RECURSIVE all_children(_), ExtendEach(_)
all_children(p) == ExtendEach(Children(RequestThread, p))

ExtendEach(cs) ==
    IF cs = <<>> THEN <<>>
    ELSE <<Head(cs)>> \o all_children(Head(cs)) \o ExtendEach(Tail(cs))

\* EntityBase.siblings: self.parent.children if self.parent else ()
siblings(p) ==
    IF pages[p].parent # None THEN Children(RequestThread, pages[p].parent) ELSE <<>>

Reversed(sq) == [i \in 1..Len(sq) |-> sq[Len(sq) + 1 - i]]

\* The loop shared by next and prev: advance the iterator to the first element
\* equal to self and return the element after it; StopIteration, from either
\* call of sibling_iter.next(), leaves the loop and None is returned.
AfterSelf(sq, p) ==
    LET at == {i \in 1..Len(sq) : sq[i] = p}
    IN  IF at = {} THEN None
        ELSE LET i == CHOOSE i \in at : \A j \in at : i <= j
             IN  IF i < Len(sq) THEN sq[i + 1] ELSE None

\* EntityBase.next: iter(self.siblings)
next(p) == AfterSelf(siblings(p), p)

\* prev that iterates the siblings forwards.
PrevNotReversed(p) == AfterSelf(siblings(p), p)

\* EntityBase.prev: iter(reversed(self.siblings))
prev(p) == AfterSelf(Reversed(siblings(p)), p)

\* breadcrumbs that forgets parents.reverse().
BreadcrumbsNotReversed(p) == Append(all_parents(p), p)

\* EntityBase.breadcrumbs:
\*   parents = self.all_parents; parents.reverse(); parents.append(self)
breadcrumbs(p) == Append(Reversed(all_parents(p)), p)

\* The hierarchy read by the request thread in a table that does not change.
TreeQuery(op, p, list, item) ==
    /\ pres' = [op |-> op, page |-> p, list |-> list, item |-> item]
    /\ UNCHANGED <<pages, now, held>>
    /\ UNCHANGED pmvars
    /\ UNCHANGED storevars

\* page.all_parents
GetAllParents(p) ==
    /\ pages[p].exists
    /\ TreeQuery("all_parents", p, all_parents(p), None)

\* page.all_children
GetAllChildren(p) ==
    /\ pages[p].exists
    /\ TreeQuery("all_children", p, all_children(p), None)

\* page.next
GetNext(p) ==
    /\ pages[p].exists
    /\ TreeQuery("next", p, <<>>, next(p))

\* page.prev
GetPrev(p) ==
    /\ pages[p].exists
    /\ TreeQuery("prev", p, <<>>, prev(p))

\* page.breadcrumbs
GetBreadcrumbs(p) ==
    /\ pages[p].exists
    /\ TreeQuery("breadcrumbs", p, breadcrumbs(p), None)

\* Page.objects.all() iterated by the request thread.
QueryAll ==
    /\ pres' = [op |-> "all", page |-> None, item |-> None,
                list |-> OrderBy(get_query_set(
                            select_published_active(Stack(RequestThread)), now))]
    /\ UNCHANGED <<pages, now, held>>
    /\ UNCHANGED pmvars
    /\ UNCHANGED storevars

\* Time passes.
Tick ==
    /\ now < MaxNow
    /\ now' = now + 1
    /\ pres' = Did("tick")
    /\ UNCHANGED <<pages, held>>
    /\ UNCHANGED pmvars
    /\ UNCHANGED storevars

\* PageBaseAdmin.publish_selected / unpublish_selected:
\* queryset.update(is_online=b) on the rows ticked in the change list.
SetOnline(S, b) ==
    /\ S # {}
    /\ S \subseteq Existing
    /\ pages' = [p \in PageIds |-> IF p \in S THEN [pages[p] EXCEPT !.is_online = b]
                                    ELSE pages[p]]
    /\ held' = [held EXCEPT !.dirty = TRUE]
    /\ pres' = Did("update")
    /\ UNCHANGED now
    /\ UNCHANGED pmvars
    /\ UNCHANGED storevars

\* PageAdmin.save_model -> Page.save of a new page: the store inserts the row
\* under the next identity.
AddPage(p, par, onl) ==
    /\ ~pages[p].exists
    /\ \A q \in PageIds : IdRank[q] < IdRank[p] => pages[q].exists
    /\ par \in Existing \cup {None}
    /\ pages' = [pages EXCEPT ![p] = Row(TRUE, par, IdRank[p], onl, NoDate, NoDate)]
    /\ held' = [held EXCEPT !.dirty = TRUE]
    /\ pres' = Did("save")
    /\ UNCHANGED now
    /\ UNCHANGED pmvars
    /\ UNCHANGED storevars

\* A caller obtains the Page object of row p from the store.
Load(p) ==
    /\ pages[p].exists
    /\ held' = [id |-> p, memo |-> NoMemo, dirty |-> FALSE]
    /\ pres' = Did("load")
    /\ UNCHANGED <<pages, now>>
    /\ UNCHANGED pmvars
    /\ UNCHANGED storevars

\* The caller iterates held.children.
HeldChildren ==
    /\ held.id # None
    /\ LET m == get_children(RequestThread, held)
       IN  /\ held' = [held EXCEPT !.memo = m]
           /\ pres' = [op |-> "children", page |-> held.id, list |-> m.cache,
                       item |-> None]
    /\ UNCHANGED <<pages, now>>
    /\ UNCHANGED pmvars
    /\ UNCHANGED storevars

\* The request thread enters or leaves a select_published block.
RequestEnter(v) ==
    /\ WithEnter(RequestThread, v)
    /\ pres' = Did("enter")
    /\ UNCHANGED <<pages, now, held>>
    /\ UNCHANGED storevars

RequestExit ==
    /\ WithExit(RequestThread)
    /\ pres' = Did("exit")
    /\ UNCHANGED <<pages, now, held>>
    /\ UNCHANGED storevars

\* The url_title each page is given when titles play no part.
DefaultTitles == [p \in PageIds |-> p]

\* The keys of the hierarchy cache: page.id of the pages passed to it.
CacheKeys == PageIds \cup {None}

\* A hierarchy cache without entries.
EmptyCache == [k \in CacheKeys |-> None]

\* No Page object is in the caller's hands.
NoObj == [ref |-> None, id |-> None, parent |-> None, url_title |-> None]

NoStoreCall ==
    [op |-> "init", error |-> NoError, id |-> None, key |-> None,
     cache |-> EmptyCache, pages |-> <<>>, titles |-> <<>>]

\* Nothing has been saved or deleted through Page objects and nothing is cached.
StoreIdle ==
    /\ url_title = DefaultTitles
    /\ used = {p \in PageIds : pages[p].exists}
    /\ cache = EmptyCache
    /\ self = NoObj
    /\ shadow = EmptyCache
    /\ sres = NoStoreCall

----------------------------------------------------------------------------
(* Specifications                                                          *)

vars == <<stack, frames, exc, open, last, pages, now, held, pres,
          url_title, used, cache, self, shadow, sres>>

\* The publication manager used by several threads; no page is touched.
Init ==
    /\ PMInit
    /\ pages = [p \in PageIds |-> NoRow]
    /\ now = 0
    /\ held = NoPage
    /\ pres = NoResult
    /\ StoreIdle

Next == PMNext /\ UNCHANGED pagevars /\ UNCHANGED storevars

Spec == Init /\ [][Next]_vars

\* Tables of pages whose parents were created before them.
Forests ==
    {f \in [PageIds -> PageIds \cup {None}] :
        /\ f["p1"] = None
        /\ f["p2"] \in {None, "p1"}
        /\ f["p3"] \in {None, "p1", "p2"}
        /\ f["p4"] \in {None, "p1", "p2", "p3"}}

\* Page.order is unique=True.
Orders == {o \in [PageIds -> 1..Cardinality(PageIds)] :
                \A p, q \in PageIds : p # q => o[p] # o[q]}

\* A request thread inside or outside one select_published block, over a
\* table of pages that form a forest.
TreeInit ==
    /\ \E f \in Forests, o \in Orders, onl \in [PageIds -> BOOLEAN] :
            pages = [p \in PageIds |-> Row(TRUE, f[p], o[p], onl[p], NoDate, NoDate)]
    /\ \E ctx \in {<<>>, <<FALSE>>} :
        /\ stack = [t \in Threads |-> IF t = RequestThread THEN ctx ELSE <<>>]
        /\ open = [t \in Threads |-> IF t = RequestThread THEN ctx ELSE <<>>]
        /\ frames = [t \in Threads |->
                        IF t = RequestThread /\ ctx # <<>>
                        THEN <<[entry |-> <<>>, nested |-> FALSE]>> ELSE <<>>]
    /\ exc = [t \in Threads |-> NoError]
    /\ last = NoCall
    /\ now = 0
    /\ held = NoPage
    /\ pres = NoResult
    /\ StoreIdle

TreeNext ==
    \E p \in PageIds :
        \/ GetAllParents(p)
        \/ GetAllChildren(p)
        \/ GetNext(p)
        \/ GetPrev(p)
        \/ GetBreadcrumbs(p)

SpecTree == TreeInit /\ [][TreeNext]_vars

\* Pages present when the publication filter is exercised.
FilterPages == {"p1", "p2"}

\* Two pages with any publication fields, queried as time passes and the
\* request thread enters and leaves select_published blocks.
FilterInit ==
    /\ PMInit
    /\ \E onl \in [FilterPages -> BOOLEAN], pub \in [FilterPages -> Dates],
          exp \in [FilterPages -> Dates] :
            pages = [p \in PageIds |->
                        IF p \in FilterPages
                        THEN Row(TRUE, None, IdRank[p], onl[p], pub[p], exp[p])
                        ELSE NoRow]
    /\ now = 0
    /\ held = NoPage
    /\ pres = NoResult
    /\ StoreIdle

FilterNext ==
    \/ QueryAll
    \/ Tick
    \/ \E S \in SUBSET FilterPages, b \in BOOLEAN : SetOnline(S, b)
    \/ \E v \in BOOLEAN : RequestEnter(v)
    \/ RequestExit

SpecFilter == FilterInit /\ [][FilterNext]_vars

\* Pages created while children are queried.
Drafts == {"p2", "p3"}

\* One root page; pages are added under it and taken on and off line while a
\* caller holds a Page object and reads its children in changing scopes.
ChildrenInit ==
    /\ PMInit
    /\ pages = [p \in PageIds |->
                    IF p = "p1" THEN Row(TRUE, None, IdRank[p], TRUE, NoDate, NoDate)
                    ELSE NoRow]
    /\ now = 0
    /\ held = NoPage
    /\ pres = NoResult
    /\ StoreIdle

ChildrenNext ==
    \/ \E p \in Drafts, par \in PageIds \cup {None}, onl \in BOOLEAN : AddPage(p, par, onl)
    \/ \E p \in PageIds, b \in BOOLEAN : SetOnline({p}, b)
    \/ \E p \in PageIds : Load(p)
    \/ HeldChildren
    \/ \E v \in BOOLEAN : RequestEnter(v)
    \/ RequestExit

SpecChildren == ChildrenInit /\ [][ChildrenNext]_vars

----------------------------------------------------------------------------
(* Publication manager: properties                                         *)

Top(stk) == IF Len(stk) = 0 THEN TRUE ELSE stk[Len(stk)]

\* C1: correctly paired scopes restore the state. When a "with
\* select_published(v)" block has been left, the thread's stack has the
\* contents it had when that block was entered, and select_published_active()
\* returns what it returned then; for the outermost block that is the state
\* before the first scope was entered.
C1_ScopesRestoreStack ==
    last.op = "exit" =>
        /\ Stack(last.t) = last.entry
        /\ select_published_active(Stack(last.t)) = Top(last.entry)

\* The outermost of nested scopes has been left, over a non-empty stack.
C1_Witness ==
    /\ last.op = "exit"
    /\ last.nested
    /\ frames[last.t] = <<>>
    /\ Len(last.entry) = 1
    /\ Stack(last.t) = last.entry

\* C2: a scope is popped when its block raises. After the error has left the
\* block the stack depth and select_published_active() are those of the
\* block's entry, and the error that propagates is the one the block raised.
C2_ErrorExitPops ==
    (last.op = "exit" /\ last.raised # NoError) =>
        /\ Len(Stack(last.t)) = Len(last.entry)
        /\ Stack(last.t) = last.entry
        /\ select_published_active(Stack(last.t)) = Top(last.entry)
        /\ exc[last.t] = last.raised

\* A scope entered with False over a non-empty stack was left by an error.
C2_Witness ==
    /\ last.op = "exit"
    /\ last.raised = BodyError
    /\ last.pre = Append(last.entry, FALSE)
    /\ Len(last.entry) > 0
    /\ exc[last.t] = BodyError

\* C3: _end() on an empty stack raises PublicationManagementError and leaves
\* the stack empty, so select_published_active() still returns True.
C3_EndOnEmptyFails ==
    (last.op = "_end" /\ last.pre = <<>>) =>
        /\ exc[last.t] = PublicationManagementError
        /\ Stack(last.t) = <<>>
        /\ select_published_active(Stack(last.t)) = TRUE

\* _end() was called on an empty stack.
C3_Witness ==
    /\ last.op = "_end"
    /\ last.pre = <<>>
    /\ exc[last.t] = PublicationManagementError

\* C4: select_published_active() returns the value most recently pushed and
\* not yet popped, True when there is none, and does not change the stack.
C4_ActiveIsInnermostOpen ==
    /\ \A t \in Threads : select_published_active(Stack(t)) = Top(open[t])
    /\ last.op = "select_published_active" =>
            /\ last.val = Top(open[last.t])
            /\ (open[last.t] = <<>> => last.val = TRUE)
            /\ Stack(last.t) = last.pre

\* A read returned False, the innermost of two open values True and False.
C4_Witness ==
    /\ last.op = "select_published_active"
    /\ open[last.t] = <<TRUE, FALSE>>
    /\ last.val = FALSE

\* C5: the stack is local to each thread. Each thread's stack holds exactly
\* the values that thread pushed and has not popped, whatever the other
\* threads did in between, and a read returns the top of the reader's own.
C5_StackIsThreadLocal ==
    /\ \A t \in Threads : Stack(t) = open[t]
    /\ last.op = "select_published_active" => last.val = Top(open[last.t])

\* Two threads hold different stacks and one of them read its own top.
C5_Witness ==
    /\ last.op = "select_published_active"
    /\ last.t = "t2"
    /\ open["t1"] = <<FALSE>>
    /\ open["t2"] = <<FALSE, TRUE>>
    /\ last.val = TRUE

----------------------------------------------------------------------------
(* Page hierarchy: properties                                              *)

IsRoot(p) == pages[p].parent = None

FilterOn == Top(open[RequestThread])

\* A page is published at time n.
IsPublished(p, n) ==
    /\ pages[p].is_online
    /\ (pages[p].publication_date = NoDate \/ pages[p].publication_date <= n)
    /\ (pages[p].expiry_date = NoDate \/ pages[p].expiry_date > n)

\* The children of page a as the children query shows them now.
ChildSet(a) ==
    {c \in PageIds : /\ pages[c].exists
                     /\ pages[c].parent = a
                     /\ (FilterOn => IsPublished(c, now))}

\* The descendants of page a: its children, their children, and so on.
RECURSIVE DescSet(_)
DescSet(a) == UNION {{c} \cup DescSet(c) : c \in ChildSet(a)}

Following(a, p) ==
    LET later == {c \in ChildSet(a) : pages[c].order > pages[p].order}
    IN  IF later = {} THEN None
        ELSE CHOOSE c \in later : \A d \in later : pages[c].order <= pages[d].order

\* The child of a that precedes p in canonical order, None when p is the first.
Preceding(a, p) ==
    LET earlier == {c \in ChildSet(a) : pages[c].order < pages[p].order}
    IN  IF earlier = {} THEN None
        ELSE CHOOSE c \in earlier : \A d \in earlier : pages[c].order >= pages[d].order

----------------------------------------------------------------------------
(* Publication filtering: properties                                       *)

Elements(sq) == {sq[i] : i \in 1..Len(sq)}

\* C6: the children query returns the pages whose parent is the page,
\* filtered by the publication context active when the query is made: with
\* the filter on an offline child is left out, with the filter off it is
\* there. Stated for a Page object loaded from a table that has not changed
\* since.
C6_ChildrenFollowContext ==
    (pres.op = "children" /\ ~held.dirty) =>
        Elements(pres.list) = ChildSet(pres.page)

\* C7: with the filter on, a Page query selects exactly the pages that are
\* online, whose publication date is blank or not after now, and whose expiry
\* date is blank or after now; with the filter off it selects every page.
C7_SelectedIffPublished ==
    pres.op = "all" =>
        \A p \in PageIds :
            (\E i \in 1..Len(pres.list) : pres.list[i] = p) <=>
                /\ pages[p].exists
                /\ FilterOn =>
                    /\ pages[p].is_online
                    /\ (pages[p].publication_date = NoDate
                            \/ pages[p].publication_date <= now)
                    /\ (pages[p].expiry_date = NoDate \/ pages[p].expiry_date > now)

\* With the filter on, a query at the very time one page expires and the other
\* is published selected the second and not the first.
C7_Witness ==
    /\ pres.op = "all"
    /\ FilterOn
    /\ now = 1
    /\ pages["p1"].is_online /\ pages["p1"].expiry_date = 1
    /\ pages["p2"].is_online /\ pages["p2"].publication_date = 1
    /\ pages["p2"].expiry_date = NoDate
    /\ pres.list = <<"p2">>

----------------------------------------------------------------------------
(* Breadcrumbs: properties                                                 *)

\* C15: the breadcrumbs of a page are its ancestors from the root down to its
\* immediate parent, followed by the page itself as the last element; for a
\* root page they are exactly [page].
C15_BreadcrumbsRootFirst ==
    pres.op = "breadcrumbs" =>
        LET p == pres.page
            r == pres.list
            n == Len(pres.list)
        IN  /\ n >= 1
            /\ r[n] = p
            /\ IsRoot(r[1])
            /\ \A i \in 1..(n - 1) : r[i] = pages[r[i + 1]].parent
            /\ IsRoot(p) => r = <<p>>

\* breadcrumbs was read on a page two levels below a root.
C15_Witness ==
    /\ pres.op = "breadcrumbs"
    /\ pres.page = "p4"
    /\ pages["p4"].parent = "p2"
    /\ pages["p2"].parent = "p1"
    /\ pres.list = <<"p1", "p2", "p4">>

----------------------------------------------------------------------------
(* Page objects, the store and the hierarchy cache                         *)

\* Values of url_title typed into the admin form.
Titles == {"about", "news"}

\* Identities the store hands out while pages are saved and deleted.
StoreIds == {"p1", "p2", "p3"}

\* Names for the Page objects alive at one time, more than cache entries.
Objects == <<"o1", "o2", "o3", "o4", "o5", "o6", "o7", "o8", "o9", "o10", "o11">>

IntegrityError == "IntegrityError"

DatabaseError == "DatabaseError"

AssertionError == "AssertionError"

\* cache.add(page): insert or overwrite the entry for page.id.
cache_add(c, page) == [c EXCEPT ![page.id] = page.ref]

\* cache.remove(page): delete the entry for page.id if there is one.
cache_remove(c, page) == [c EXCEPT ![page.id] = None]

\* cache.get(identity): the cached page, or None.
cache_get(c, k) == c[k]

\* A Page object nobody refers to can be told from no other; a new object
\* takes the place of one.
NewRef ==
    LET free == {i \in 1..Len(Objects) :
                    \A k \in CacheKeys : cache[k] # Objects[i] /\ shadow[k] # Objects[i]}
    IN  Objects[CHOOSE i \in free : \A j \in free : i <= j]

\* Page.__init__: super().__init__(); if self.id: cache.add(self)
Page_init(c, page) == IF page.id # None THEN cache_add(c, page) ELSE c

\* The store gives a new row the identity after the last one it handed out.
NextId ==
    CHOOSE p \in StoreIds \ used :
        \A q \in StoreIds \ used : IdRank[p] <= IdRank[q]

\* Page.Meta without unique_together.
NoUniqueTogether(tbl, titles, id, par, title) == FALSE

\* Page.Meta.unique_together = (("parent", "url_title"),): writing row `id`
\* with (par, title) breaks the constraint when another row holds the same
\* pair. A null parent equals no parent: the store's unique index compares
\* NULL as distinct from NULL, so rows without parent are never in conflict.
unique_together(tbl, titles, id, par, title) ==
    /\ par # None
    /\ \E q \in PageIds :
        /\ q # id
        /\ tbl[q].exists
        /\ tbl[q].parent = par
        /\ titles[q] = title

\* super(Page, self).save(): INSERT for an object without id, else UPDATE.
\* `fail` is the store failing for a reason of its own.
Model_save(page, fail) ==
    LET id == IF page.id = None THEN NextId ELSE page.id
    IN  IF fail THEN [error |-> DatabaseError, page |-> page]
        ELSE IF unique_together(pages, url_title, id, page.parent, page.url_title)
        THEN [error |-> IntegrityError, page |-> page]
        ELSE [error |-> NoError, page |-> [page EXCEPT !.id = id]]

\* super(Page, self).delete(): refuses an object without id; otherwise
\* deletes the row and sets the object's id to None.
Model_delete(page, fail) ==
    IF page.id = None THEN [error |-> AssertionError, page |-> page]
    ELSE IF fail THEN [error |-> DatabaseError, page |-> page]
    ELSE [error |-> NoError, page |-> [page EXCEPT !.id = None]]

\* Page.save that caches the page before it is stored.
SaveCachesFirst(c, r, before) == cache_add(c, before)

\* Page.save that does not cache the page.
SaveWithoutCacheAdd(c, r, before) == c

\* Page.save: super().save(); cache.add(self). r is what super().save() did
\* to the object `before`.
Page_save(c, r, before) ==
    IF r.error = NoError THEN cache_add(c, r.page) ELSE c

\* Page.delete that empties the cache.
DeleteClearsCache(c, r, before) ==
    IF r.error = NoError THEN EmptyCache ELSE c

\* Page.delete: super().delete(); cache.remove(self). r is what
\* super().delete() did to the object `before`.
Page_delete(c, r, before) ==
    IF r.error = NoError THEN cache_remove(c, r.page) ELSE c

\* What a call on an object starts from.
StoreCall(op, r, key) ==
    [op |-> op, error |-> r.error, id |-> self.id, key |-> key,
     cache |-> cache, pages |-> pages, titles |-> url_title]

\* The rows whose parent is one of the pages S.
Referrers(S) == {c \in PageIds : pages[c].exists /\ pages[c].parent \in S}

RECURSIVE Closure(_, _)
Closure(S, n) == IF n = 0 THEN S ELSE Closure(S \cup Referrers(S), n - 1)

\* The rows below page p in the table, whatever their publication state.
Below(p) == Closure(Referrers({p}), Cardinality(PageIds))

\* Page(): a caller constructs a page that is not in the store yet.
New ==
    LET page == [ref |-> NewRef, id |-> None, parent |-> None, url_title |-> None]
    IN  /\ self' = page
        /\ cache' = Page_init(cache, page)
        /\ sres' = StoreCall("new", [error |-> NoError], None)
        /\ UNCHANGED <<pages, url_title, used, shadow>>
        /\ UNCHANGED <<now, held, pres>>
        /\ UNCHANGED pmvars

\* The ORM constructs the Page object of row p, handed to a caller.
Construct(p) ==
    /\ pages[p].exists
    /\ LET page == [ref |-> NewRef, id |-> p, parent |-> pages[p].parent,
                    url_title |-> url_title[p]]
       IN  /\ self' = page
           /\ cache' = Page_init(cache, page)
           /\ shadow' = [shadow EXCEPT ![p] = page.ref]
           /\ sres' = StoreCall("construct", [error |-> NoError], p)
    /\ UNCHANGED <<pages, url_title, used>>
    /\ UNCHANGED <<now, held, pres>>
    /\ UNCHANGED pmvars

\* PageAdmin.save_model: the form's parent and url_title are set on the
\* object and obj.save() is called. The parent is a page that is neither the
\* object nor below it.
Save(par, title, fail) ==
    /\ self.ref # None
    /\ self.id = None => StoreIds \ used # {}
    /\ par # None => /\ pages[par].exists
                     /\ self.id # None => par \notin Below(self.id) \cup {self.id}
    /\ LET before == [self EXCEPT !.parent = par, !.url_title = title]
           r == Model_save(before, fail)
           ok == r.error = NoError
           id == r.page.id
       IN  /\ pages' = IF ~ok THEN pages
                       ELSE IF self.id = None
                       THEN [pages EXCEPT ![id] =
                                Row(TRUE, par, IdRank[id], TRUE, NoDate, NoDate)]
                       ELSE [pages EXCEPT ![id].parent = par]
           /\ url_title' = IF ok THEN [url_title EXCEPT ![id] = title] ELSE url_title
           /\ used' = IF ok THEN used \cup {id} ELSE used
           /\ self' = r.page
           /\ cache' = Page_save(cache, r, before)
           /\ shadow' = IF ok THEN [shadow EXCEPT ![id] = r.page.ref] ELSE shadow
           /\ sres' = StoreCall("save", r, IF ok THEN id ELSE None)
    /\ UNCHANGED <<now, held, pres>>
    /\ UNCHANGED pmvars

\* obj.delete() on the object in the caller's hands, a page without children.
Delete(fail) ==
    /\ self.ref # None
    /\ self.id # None => Referrers({self.id}) = {}
    /\ LET r == Model_delete(self, fail)
           ok == r.error = NoError
       IN  /\ pages' = IF ok THEN [pages EXCEPT ![self.id] = NoRow] ELSE pages
           /\ url_title' = IF ok THEN [url_title EXCEPT ![self.id] = DefaultTitles[self.id]]
                           ELSE url_title
           /\ self' = r.page
           /\ cache' = Page_delete(cache, r, self)
           /\ shadow' = IF ok THEN [shadow EXCEPT ![r.page.id] = None] ELSE shadow
           /\ sres' = StoreCall("delete", r, IF ok THEN r.page.id ELSE None)
    /\ UNCHANGED used
    /\ UNCHANGED <<now, held, pres>>
    /\ UNCHANGED pmvars

\* An empty store: pages are created, loaded, re-saved and deleted.
StoreInit ==
    /\ PMInit
    /\ pages = [p \in PageIds |-> NoRow]
    /\ now = 0
    /\ held = NoPage
    /\ pres = NoResult
    /\ StoreIdle

StoreNext ==
    \/ New
    \/ \E p \in StoreIds : Construct(p)
    \/ \E par \in StoreIds \cup {None}, title \in Titles, fail \in BOOLEAN :
            Save(par, title, fail)
    \/ \E fail \in BOOLEAN : Delete(fail)

SpecStore == StoreInit /\ [][StoreNext]_vars

----------------------------------------------------------------------------
(* The store and the hierarchy cache: properties                           *)

\* C11 as stated: no two pages with the same parent, the pages without parent
\* included, have the same url_title.
C11_Original_AllSiblings ==
    \A p, q \in Existing :
        (p # q /\ pages[p].parent = pages[q].parent) => url_title[p] # url_title[q]

\* C11: no two pages that are children of the same page have the same
\* url_title: saving a page with url_title u under a page Y that has another
\* child with url_title u fails and leaves the table as it was. Pages without
\* parent are not covered.
C11_ChildrenOfAPageDiffer ==
    /\ \A p, q \in Existing :
        (p # q /\ pages[p].parent # None /\ pages[p].parent = pages[q].parent)
            => url_title[p] # url_title[q]
    /\ (sres.op = "save" /\ sres.error = IntegrityError) =>
            /\ pages = sres.pages
            /\ url_title = sres.titles
            /\ \E q \in Existing : /\ q # sres.id
                                   /\ pages[q].parent # None
                                   /\ pages[q].parent = self.parent
                                   /\ url_title[q] = self.url_title

\* A new page was refused under a parent that has a child of that url_title.
C11_Witness ==
    /\ sres.op = "save"
    /\ sres.error = IntegrityError
    /\ sres.id = None
    /\ self.parent = "p1"
    /\ pages["p2"].exists /\ pages["p2"].parent = "p1"
    /\ url_title["p2"] = self.url_title

\* C12: from the moment a page is added to the hierarchy cache, by a
\* successful Page.save or by the construction of a Page that has an id, a
\* lookup by its id returns that page, until the id is removed or another
\* page of the same id is added over it.
C12_LookupReturnsLastAdded ==
    \A k \in CacheKeys : shadow[k] # None => cache_get(cache, k) = shadow[k]

\* A second object of a cached page was constructed over the first, and a
\* page saved earlier is still looked up.
C12_Witness ==
    /\ sres.op = "construct"
    /\ sres.key = "p1"
    /\ sres.cache["p1"] # None
    /\ cache_get(cache, "p1") = self.ref
    /\ self.ref # sres.cache["p1"]
    /\ cache_get(cache, "p2") # None

\* C13: after Page.delete has completed, the hierarchy cache has no entry for
\* the id the page had before it was deleted.
C13_DeletedIsUncached ==
    (sres.op = "delete" /\ sres.error = NoError) => cache_get(cache, sres.id) = None

C17_FailedCallKeepsCache ==
    (sres.op \in {"save", "delete"} /\ sres.error # NoError) => cache = sres.cache

\* The save of a cached page under a new parent was refused by the store.
C17_Witness ==
    /\ sres.op = "save"
    /\ sres.error = IntegrityError
    /\ sres.id # None
    /\ cache_get(cache, sres.id) = self.ref
    /\ \E k \in PageIds : k # sres.id /\ cache_get(cache, k) # None

----------------------------------------------------------------------------
(* The admin change form of a page                                         *)

\* Pages present when parents are reassigned in the admin.
AdminPages == {"p1", "p2", "p3"}

\* The pages the request thread's queries show.
Shown == get_query_set(select_published_active(Stack(RequestThread)), now)

\* PageAdmin.get_form, the choices of the parent field when obj is page p:
\*   valid_parents = Page.objects.all()
\*   invalid_parents = [child.id for child in obj.all_children] + [obj.id]
\*   valid_parents = valid_parents.exclude(id__in=invalid_parents)
get_form(p) == Shown \ (Elements(all_children(p)) \cup {p})

\* The shown rows whose parent is one of the pages S.
ShownReferrers(S) == {c \in Shown : pages[c].parent \in S}

RECURSIVE ShownClosure(_, _)
ShownClosure(S, n) ==
    IF n = 0 THEN S ELSE ShownClosure(S \cup ShownReferrers(S), n - 1)

\* The pages obj.all_children visits below page p.
ShownBelow(p) == ShownClosure(ShownReferrers({p}), Cardinality(PageIds))

\* obj.all_children returns: the recursion over children meets no page twice.
\* Otherwise it ends in a RuntimeError and no form is rendered.
AllChildrenReturns(p) ==
    \A q \in ShownBelow(p) \cup {p} : q \notin ShownBelow(q)

\* parent.all_parents returns: the chain of parents of page p ends at a root.
AllParentsReturns(p) ==
    \A a \in PageIds : (a = p \/ p \in Below(a)) => a \notin Below(a)

\* The change view of page p, submitted with a parent taken from the choices
\* of the form (or left blank): the object is fetched, the form is built with
\* the breadcrumbs of each valid parent, and save_model calls obj.save(); the
\* object is dropped when the request ends.
AdminChange(p, par) ==
    /\ p \in Shown
    /\ AllChildrenReturns(p)
    /\ \A q \in get_form(p) : AllParentsReturns(q)
    /\ par \in get_form(p) \cup {None}
    /\ LET fetched == [ref |-> NewRef, id |-> p, parent |-> pages[p].parent,
                       url_title |-> url_title[p]]
           before == [fetched EXCEPT !.parent = par]
           r == Model_save(before, FALSE)
           ok == r.error = NoError
       IN  /\ pages' = IF ok THEN [pages EXCEPT ![p].parent = par] ELSE pages
           /\ self' = NoObj
           /\ cache' = Page_save(Page_init(cache, fetched), r, before)
           /\ shadow' = [shadow EXCEPT ![p] = fetched.ref]
           /\ sres' = [NoStoreCall EXCEPT !.op = "change", !.error = r.error]
    /\ held' = [held EXCEPT !.dirty = TRUE]
    /\ pres' = Did("save")
    /\ UNCHANGED <<url_title, used, now>>
    /\ UNCHANGED pmvars

\* Three published pages in a forest, edited in the admin by a request thread
\* that runs inside or outside a select_published(False) block.
AdminInit ==
    /\ \E f \in Forests :
            pages = [p \in PageIds |->
                        IF p \in AdminPages
                        THEN Row(TRUE, f[p], IdRank[p], TRUE, NoDate, NoDate)
                        ELSE NoRow]
    /\ \E ctx \in {<<>>, <<FALSE>>} :
        /\ stack = [t \in Threads |-> IF t = RequestThread THEN ctx ELSE <<>>]
        /\ open = [t \in Threads |-> IF t = RequestThread THEN ctx ELSE <<>>]
        /\ frames = [t \in Threads |->
                        IF t = RequestThread /\ ctx # <<>>
                        THEN <<[entry |-> <<>>, nested |-> FALSE]>> ELSE <<>>]
    /\ exc = [t \in Threads |-> NoError]
    /\ last = NoCall
    /\ now = 0
    /\ held = NoPage
    /\ pres = NoResult
    /\ StoreIdle

AdminNext ==
    \/ \E p \in AdminPages, par \in AdminPages \cup {None} : AdminChange(p, par)
    \/ \E S \in SUBSET AdminPages, b \in BOOLEAN : SetOnline(S, b)

SpecAdmin == AdminInit /\ [][AdminNext]_vars

\* C16: when every parent is taken from the choices PageAdmin.get_form
\* offers, the parent relation has no cycle after any sequence of admin
\* edits, also when some descendants are unpublished.
C16_ParentsFormNoCycle ==
    \A p \in Existing : p \notin Below(p)

====
